---- MODULE Spec2Model ----
(***************************************************************************)
(* Certificate trust engine of conn/ssl_gnutls.c: tls_fingerprint,         *)
(* tls_check_stored_hostname, tls_compare_certificates, tls_check_preauth, *)
(* tls_check_one_certificate and tls_check_certificate.                    *)
(*                                                                         *)
(* Text is a sequence of one-character strings.  The certificate file is   *)
(* a sequence of entries: text lines and PEM blocks.  Bit masks are sets   *)
(* of flag names; x ^= FLAG after a test of FLAG is set difference and     *)
(* x ^ FLAG is the symmetric difference.  Allocation failures of the       *)
(* library (gnutls_x509_crt_init, mutt_mem_calloc) are outside the model.  *)
(***************************************************************************)
EXTENDS Integers, Sequences, FiniteSets, TLC

VARIABLES
  store,      \* the file named by C_CertificateFile: [status, content]
  cfg,        \* C_SslVerifyDates, C_SslVerifyHost, availability of MD5
  chain,      \* cert_list of the connection, index 1 = end entity
  hostname,   \* conn->account.host
  now,        \* mutt_date_epoch()
  certstat,   \* tls_check_certificate: certstat
  pc,         \* position inside tls_check_certificate
  i,          \* loop index (0-based, as in the source)
  rc,         \* tls_check_certificate: rc
  rcpeer,     \* tls_check_certificate: rcpeer
  preauthrc,  \* tls_check_certificate: preauthrc
  certerr,    \* tls_check_one_certificate: certerr
  savedcert,  \* tls_check_one_certificate: savedcert
  pa,         \* the last call of tls_check_preauth: arguments and results
  lk,         \* the last call of a certificate-file lookup
  log,        \* what this run of tls_check_certificate did so far
  verdict,    \* "none", "Accepted" (returned 1), "Rejected" (returned 0)
  entry,      \* certificate file and certstat when tls_check_certificate began
  conns       \* number of connections still to be checked

vars == <<store, cfg, chain, hostname, now, certstat, pc, i, rc, rcpeer,
          preauthrc, certerr, savedcert, pa, lk, log, verdict, entry, conns>>

----------------------------------------------------------------------------
\* Bounds of the model

MaxChainLen == 2
MaxConns == 2
MaxFileLen == 2

----------------------------------------------------------------------------
\* Characters and strings

LowerLetters == {"a","b","c","d","e","f","g","h","i","j","k","l","m",
                 "n","o","p","q","r","s","t","u","v","w","x","y","z"}
UpperLetters == {"A","B","C","D","E","F","G","H","I","J","K","L","M",
                 "N","O","P","Q","R","S","T","U","V","W","X","Y","Z"}
Digits == {"0","1","2","3","4","5","6","7","8","9"}

\* the bracket expression [a-zA-Z0-9_\.-] of the regular expression
HostClass == LowerLetters \cup UpperLetters \cup Digits \cup {"_", ".", "-"}

\* the bracket expression [0-9A-F] under REG_ICASE
HexClass == Digits \cup {"A","B","C","D","E","F"} \cup {"a","b","c","d","e","f"}

\* the bracket expression [ \t]
BlankClass == {" ", "\t"}

HexDigits == <<"0","1","2","3","4","5","6","7","8","9","A","B","C","D","E","F">>

UpperToLower ==
  [c \in UpperLetters |->
     CASE c = "A" -> "a" [] c = "B" -> "b" [] c = "C" -> "c" [] c = "D" -> "d"
       [] c = "E" -> "e" [] c = "F" -> "f" [] c = "G" -> "g" [] c = "H" -> "h"
       [] c = "I" -> "i" [] c = "J" -> "j" [] c = "K" -> "k" [] c = "L" -> "l"
       [] c = "M" -> "m" [] c = "N" -> "n" [] c = "O" -> "o" [] c = "P" -> "p"
       [] c = "Q" -> "q" [] c = "R" -> "r" [] c = "S" -> "s" [] c = "T" -> "t"
       [] c = "U" -> "u" [] c = "V" -> "v" [] c = "W" -> "w" [] c = "X" -> "x"
       [] c = "Y" -> "y" [] c = "Z" -> "z"]

LowerChar(c) == IF c \in UpperLetters THEN UpperToLower[c] ELSE c

LowerStr(s) == [k \in 1..Len(s) |-> LowerChar(s[k])]

\* strcmp(a, b) == 0
StrEq(a, b) == Len(a) = Len(b) /\ \A k \in 1..Len(a) : a[k] = b[k]

----------------------------------------------------------------------------
\* Certificates

\* der: the DER bytes; nb, na: activation and expiration time;
\* names: the DNS names of the certificate, in lower case
CertA == [der |-> <<1, 2>>, nb |-> 2, na |-> 2, names |-> {<<"m", "x">>}]
CertB == [der |-> <<1>>,    nb |-> 1, na |-> 1, names |-> {}]
CertC == [der |-> <<1, 3>>, nb |-> 3, na |-> 3, names |-> {}]

Certs == {CertA, CertB, CertC}

Hosts == { <<"m", "x">>, <<"M", "x">>, <<":", ":", "1">> }

Nows == {2}

\* gnutls_x509_crt_check_hostname: DNS names compare without regard to case
gnutls_x509_crt_check_hostname(cert, host) == LowerStr(host) \in cert.names

\* the MD5 digest of the certificate bytes, 16 octets
MD5Len == 16

RECURSIVE SumBytes(_)
SumBytes(s) == IF s = <<>> THEN 0 ELSE Head(s) + SumBytes(Tail(s))

gnutls_fingerprint(data) ==
  [k \in 1..MD5Len |-> (SumBytes(data) * 37 + Len(data) * 101 + k * 13) % 256]

----------------------------------------------------------------------------
\* tls_fingerprint

UnableToCalculate ==
  <<"[","u","n","a","b","l","e"," ","t","o"," ",
    "c","a","l","c","u","l","a","t","e","]">>

Hex2(b) == <<HexDigits[(b \div 16) + 1], HexDigits[(b % 16) + 1]>>

\* the loop over md[0..k-1]: "%02X" and, after an odd index, a space
RECURSIVE FingerprintCat(_, _)
FingerprintCat(md, k) ==
  IF k = 0 THEN <<>>
  ELSE FingerprintCat(md, k - 1) \o Hex2(md[k])
         \o (IF (k - 1) % 2 = 1 THEN <<" ">> ELSE <<>>)

\* ok: gnutls_fingerprint() did not fail
tls_fingerprint(ok, data) ==
  IF ~ok THEN UnableToCalculate
  ELSE LET md == gnutls_fingerprint(data)
           n == Len(md)
       IN SubSeq(FingerprintCat(md, n), 1, 2 * n + n \div 2 - 1)

----------------------------------------------------------------------------
\* The certificate file

\* one line of text, without its newline
Line(s) == [t |-> "line", s |-> s, der |-> <<>>, ok |-> TRUE]

\* one "-----BEGIN ...-----" block; ok: it decodes, and then der is what
\* gnutls_pem_base64_decode_alloc yields
Pem(der, ok) == [t |-> "pem", s |-> <<>>, der |-> der, ok |-> ok]

\* fprintf(fp, "#H %s %s\n", hostname, fpbuf)
HostLine(host, fp) == Line(<<"#", "H", " ">> \o host \o <<" ">> \o fp)

\* fopen(C_CertificateFile, "r") and stat() succeed
FileReadable(st) == st.status \in {"ok", "readonly"}

\* mutt_file_fopen(C_CertificateFile, "a") succeeds; a missing file is created
FileAppendable(st) == st.status \in {"ok", "missing"}

NoMatch == [match |-> FALSE, host |-> <<>>, fp |-> <<>>]

\* end of the longest run of [a-zA-Z0-9_\.-] that starts at position 4
HostEnd(s) ==
  CHOOSE j \in 4..(Len(s) + 1) :
    /\ \A k \in 4..(j - 1) : s[k] \in HostClass
    /\ (j = Len(s) + 1 \/ s[j] \notin HostClass)

\* regexec of "^#H ([a-zA-Z0-9_\.-]+) ([0-9A-F]{4}( [0-9A-F]{4}){7})[ \t]*$"
\* compiled with REG_ICASE; host and fp are sub-matches 1 and 2
regexec(s) ==
  IF Len(s) < 3 \/ s[1] # "#" \/ s[2] \notin {"H", "h"} \/ s[3] # " "
  THEN NoMatch
  ELSE LET e == HostEnd(s)
           p == e + 1
           n == 8 * 5 - 1
       IN IF e = 4 \/ e > Len(s) \/ s[e] # " " \/ Len(s) < p + n - 1
          THEN NoMatch
          ELSE IF /\ \A k \in 0..(n - 1) :
                       IF k % 5 = 4 THEN s[p + k] = " "
                                    ELSE s[p + k] \in HexClass
                  /\ \A k \in (p + n)..Len(s) : s[k] \in BlankClass
               THEN [match |-> TRUE, host |-> SubSeq(s, 4, e - 1),
                     fp |-> SubSeq(s, p, p + n - 1)]
               ELSE NoMatch

\* md5ok: gnutls_fingerprint(GNUTLS_DIG_MD5, ...) works on this system
tls_check_stored_hostname(st, md5ok, cert, host) ==
  IF ~FileReadable(st) THEN FALSE
  ELSE LET buf == tls_fingerprint(md5ok, cert)
       IN \E k \in 1..Len(st.content) :
            LET e == st.content[k]
            IN /\ e.t = "line"
               /\ Len(e.s) >= 2 /\ e.s[1] = "#" /\ e.s[2] = "H"
               /\ LET m == regexec(e.s)
                  IN m.match /\ StrEq(m.host, host) /\ StrEq(m.fp, buf)

\* as SameBytes, without the comparison of the sizes
SameBytesNoSize(cert, peercert) ==
  \A k \in 1..Len(cert) : k <= Len(peercert) => cert[k] = peercert[k]

\* cert.size == peercert->size and memcmp(...) == 0
SameBytes(cert, peercert) ==
  Len(cert) = Len(peercert) /\ \A k \in 1..Len(cert) : cert[k] = peercert[k]

\* the do-while loop, entered with b64_data at entry k of the file
RECURSIVE ScanBlocks(_, _, _)
ScanBlocks(content, k, peercert) ==
  LET blocks == {j \in k..Len(content) : content[j].t = "pem"}
  IN IF blocks = {} THEN FALSE
     ELSE LET j == CHOOSE b \in blocks : \A c \in blocks : b <= c
          IN IF ~content[j].ok THEN FALSE
             ELSE IF SameBytes(content[j].der, peercert) THEN TRUE
             ELSE ScanBlocks(content, j + 1, peercert)

\* as tls_compare_certificates, looking at the first block only
tls_compare_first_block(st, peercert) ==
  /\ FileReadable(st)
  /\ \E k \in 1..Len(st.content) :
       /\ st.content[k].t = "pem" /\ st.content[k].ok
       /\ \A j \in 1..(k - 1) : st.content[j].t # "pem"
       /\ SameBytes(st.content[k].der, peercert)

\* as tls_compare_certificates, without the returns on stat() and fopen()
tls_compare_unopened(st, peercert) == ScanBlocks(st.content, 1, peercert)

tls_compare_certificates(st, peercert) ==
  IF ~FileReadable(st) THEN FALSE
  ELSE ScanBlocks(st.content, 1, peercert)

----------------------------------------------------------------------------
\* tls_check_preauth

\* bits of gnutls_certificate_status_t the function knows
KnownStatus == {"INVALID", "REVOKED", "SIGNER_NOT_FOUND", "SIGNER_NOT_CA",
                "INSECURE_ALGORITHM"}

\* as PreauthEarly, without the test of GNUTLS_CERT_REVOKED
PreauthEarlyNoRevoked(st, cf, cert, stat, host, chainidx, t) ==
  (IF cf.verifyDates /\ cert.na < t THEN {"EXPIRED"} ELSE {})
  \cup (IF cf.verifyDates /\ cert.nb > t THEN {"NOTYETVALID"} ELSE {})
  \cup (IF /\ chainidx = 0
           /\ cf.verifyHost
           /\ ~gnutls_x509_crt_check_hostname(cert, host)
           /\ ~tls_check_stored_hostname(st, cf.md5ok, cert.der, host)
        THEN {"HOSTNAME"} ELSE {})

\* as PreauthEarly, without the test chainidx == 0
PreauthEarlyAnyIndex(st, cf, cert, stat, host, chainidx, t) ==
  (IF cf.verifyDates /\ cert.na < t THEN {"EXPIRED"} ELSE {})
  \cup (IF cf.verifyDates /\ cert.nb > t THEN {"NOTYETVALID"} ELSE {})
  \cup (IF /\ cf.verifyHost
           /\ ~gnutls_x509_crt_check_hostname(cert, host)
           /\ ~tls_check_stored_hostname(st, cf.md5ok, cert.der, host)
        THEN {"HOSTNAME"} ELSE {})
  \cup (IF "REVOKED" \in stat THEN {"REVOKED"} ELSE {})

\* as PreauthEarly, without the call of gnutls_x509_crt_check_hostname
PreauthEarlyNamesUnread(st, cf, cert, stat, host, chainidx, t) ==
  (IF cf.verifyDates /\ cert.na < t THEN {"EXPIRED"} ELSE {})
  \cup (IF cf.verifyDates /\ cert.nb > t THEN {"NOTYETVALID"} ELSE {})
  \cup (IF /\ chainidx = 0
           /\ cf.verifyHost
           /\ ~tls_check_stored_hostname(st, cf.md5ok, cert.der, host)
        THEN {"HOSTNAME"} ELSE {})
  \cup (IF "REVOKED" \in stat THEN {"REVOKED"} ELSE {})

\* as PreauthEarly, for <= and >= in the comparisons of the dates
PreauthEarlyInclusiveDates(st, cf, cert, stat, host, chainidx, t) ==
  (IF cf.verifyDates /\ cert.na <= t THEN {"EXPIRED"} ELSE {})
  \cup (IF cf.verifyDates /\ cert.nb >= t THEN {"NOTYETVALID"} ELSE {})
  \cup (IF /\ chainidx = 0
           /\ cf.verifyHost
           /\ ~gnutls_x509_crt_check_hostname(cert, host)
           /\ ~tls_check_stored_hostname(st, cf.md5ok, cert.der, host)
        THEN {"HOSTNAME"} ELSE {})
  \cup (IF "REVOKED" \in stat THEN {"REVOKED"} ELSE {})

\* *certerr after the date, host name and revocation checks
PreauthEarly(st, cf, cert, stat, host, chainidx, t) ==
  (IF cf.verifyDates /\ cert.na < t THEN {"EXPIRED"} ELSE {})
  \cup (IF cf.verifyDates /\ cert.nb > t THEN {"NOTYETVALID"} ELSE {})
  \cup (IF /\ chainidx = 0
           /\ cf.verifyHost
           /\ ~gnutls_x509_crt_check_hostname(cert, host)
           /\ ~tls_check_stored_hostname(st, cf.md5ok, cert.der, host)
        THEN {"HOSTNAME"} ELSE {})
  \cup (IF "REVOKED" \in stat THEN {"REVOKED"} ELSE {})

\* as PreauthLate, GNUTLS_CERT_REVOKED still set in certstat
PreauthLateRevokedLeft(stat) ==
  LET rest == stat \ (KnownStatus \ {"REVOKED"})
  IN (IF "INVALID" \in stat \/ "SIGNER_NOT_FOUND" \in stat
      THEN {"NOTTRUSTED"} ELSE {})
     \cup (IF "SIGNER_NOT_CA" \in stat THEN {"SIGNERNOTCA"} ELSE {})
     \cup (IF "INSECURE_ALGORITHM" \in stat THEN {"INSECUREALG"} ELSE {})
     \cup (IF rest # {} THEN {"OTHER"} ELSE {})

\* as PreauthLate, without the test of GNUTLS_CERT_SIGNER_NOT_FOUND
PreauthLateInvalidOnly(stat) ==
  LET rest == stat \ KnownStatus
  IN (IF "INVALID" \in stat THEN {"NOTTRUSTED"} ELSE {})
     \cup (IF "SIGNER_NOT_CA" \in stat THEN {"SIGNERNOTCA"} ELSE {})
     \cup (IF "INSECURE_ALGORITHM" \in stat THEN {"INSECUREALG"} ELSE {})
     \cup (IF rest # {} THEN {"OTHER"} ELSE {})

\* the bits added after the cache lookup; rest is certstat after the ^=
PreauthLate(stat) ==
  LET rest == stat \ KnownStatus
  IN (IF "INVALID" \in stat \/ "SIGNER_NOT_FOUND" \in stat
      THEN {"NOTTRUSTED"} ELSE {})
     \cup (IF "SIGNER_NOT_CA" \in stat THEN {"SIGNERNOTCA"} ELSE {})
     \cup (IF "INSECURE_ALGORITHM" \in stat THEN {"INSECUREALG"} ELSE {})
     \cup (IF rest # {} THEN {"OTHER"} ELSE {})

\* as tls_check_preauth, a cached certificate returning at once whatever
\* *certerr holds
tls_check_preauth_cache_first(st, cf, cert, stat, host, chainidx, t) ==
  LET early == PreauthEarly(st, cf, cert, stat, host, chainidx, t)
      saved == tls_compare_certificates(st, cert.der)
  IN IF saved
     THEN [certerr |-> {}, savedcert |-> TRUE, rc |-> 0, short |-> TRUE,
           early |-> early]
     ELSE LET e == early \cup PreauthLate(stat)
          IN [certerr |-> e, savedcert |-> saved,
              rc |-> IF e = {} THEN 0 ELSE -1, short |-> FALSE,
              early |-> early]

\* as tls_check_preauth, without the return inside the cache test
tls_check_preauth_no_return(st, cf, cert, stat, host, chainidx, t) ==
  LET early == PreauthEarly(st, cf, cert, stat, host, chainidx, t)
      saved == tls_compare_certificates(st, cert.der)
      e == early \cup PreauthLate(stat)
  IN [certerr |-> e, savedcert |-> saved,
      rc |-> IF e = {} THEN 0 ELSE -1, short |-> FALSE, early |-> early]

\* result: *certerr, *savedcert, the return value, and whether the
\* function returned from inside the cache test
tls_check_preauth(st, cf, cert, stat, host, chainidx, t) ==
  LET early == PreauthEarly(st, cf, cert, stat, host, chainidx, t)
      saved == tls_compare_certificates(st, cert.der)
  IN IF saved /\ early = {}
     THEN [certerr |-> {}, savedcert |-> TRUE, rc |-> 0, short |-> TRUE,
           early |-> early]
     ELSE LET e == early \cup PreauthLate(stat)
          IN [certerr |-> e, savedcert |-> saved,
              rc |-> IF e = {} THEN 0 ELSE -1, short |-> FALSE,
              early |-> early]

----------------------------------------------------------------------------
\* Inputs of the model

\* files found at start-up: what earlier runs wrote, and hand-edited ones
FpA == tls_fingerprint(TRUE, CertA.der)
FpB == tls_fingerprint(TRUE, CertB.der)

InitFiles ==
  { <<>>,
    <<Pem(CertA.der, TRUE), Pem(CertB.der, TRUE)>>,
    <<HostLine(<<"m", "x">>, FpB), Pem(CertB.der, TRUE)>>,
    <<HostLine(<<":", ":", "1">>, FpA)>>,
    <<Line(<<"#", " ", "x">>), Pem(CertC.der, FALSE), Pem(CertA.der, TRUE)>> }

\* "unset": C_CertificateFile is NULL
InitStores ==
  [status : {"ok"}, content : InitFiles]
  \cup { [status |-> "missing", content |-> <<>>],
         [status |-> "unset", content |-> <<>>],
         [status |-> "unreadable", content |-> <<Pem(CertA.der, TRUE)>>],
         [status |-> "readonly", content |-> <<Pem(CertA.der, TRUE)>>] }

\* md5ok: gnutls_fingerprint(GNUTLS_DIG_MD5, ...) works on this system
Cfgs ==
  [verifyDates : BOOLEAN, verifyHost : BOOLEAN, md5ok : {TRUE}]
  \cup { [verifyDates |-> TRUE, verifyHost |-> TRUE, md5ok |-> FALSE] }

RECURSIVE SeqsUpTo(_, _)
SeqsUpTo(S, n) ==
  IF n = 0 THEN {<<>>}
  ELSE LET shorter == SeqsUpTo(S, n - 1)
       IN shorter \cup {Append(s, x) : s \in shorter, x \in S}

\* a chain holds each certificate once
Chains ==
  {c \in SeqsUpTo(Certs, MaxChainLen) :
     Len(c) >= 1 /\ \A j, k \in 1..Len(c) : c[j] = c[k] => j = k}

\* what gnutls_certificate_verify_peers2 delivers: return value and *status
LibResults ==
  [ret : {0}, status : { {}, {"INVALID", "SIGNER_NOT_FOUND"},
                         {"INVALID", "REVOKED"}, {"INVALID", "EXPIRED"} }]
  \cup { [ret |-> -1, status |-> {"INVALID"}] }

\* what fprintf of the "#H" line can do: the line reaches the file, or it does
\* not (the result of fprintf and of fclose is not looked at)
HostWriteOutcomes == {"ok", "fail"}

\* what the writes of "accept always" can do to the PEM block: written;
\* gnutls_pem_base64_encode_alloc fails; fwrite fails with nothing or with a
\* part of the block in the file; fwrite returns 1 and the block is lost when
\* the file is closed
WriteOutcomes == {"ok", "encfail", "wfail", "wpartial", "lost"}


----------------------------------------------------------------------------
\* tls_verify_peers: 0 when the library call failed, else the status
tls_verify_peers(lib) == IF lib.ret = 0 THEN lib.status ELSE {}

Xor(a, b) == (a \ b) \cup (b \ a)

Event(ev, idx, d) == [ev |-> ev, idx |-> idx, d |-> d]

NoCall == [called |-> FALSE, idx |-> 0, cert |-> CertA, stat |-> {},
           host |-> <<>>, store |-> [status |-> "unset", content |-> <<>>],
           res |-> [certerr |-> {}, savedcert |-> FALSE, rc |-> 0,
                    short |-> FALSE, early |-> {}]]

PreauthCall(idx) ==
  [called |-> TRUE, idx |-> idx, cert |-> chain[idx + 1], stat |-> certstat,
   host |-> hostname, store |-> store,
   res |-> tls_check_preauth(store, cfg, chain[idx + 1], certstat, hostname,
                             idx, now)]

NoEntry == [store |-> [status |-> "unset", content |-> <<>>], certstat |-> {}]

NoLookup == [op |-> "none", host |-> <<>>, der |-> <<>>, res |-> FALSE]

Init ==
  /\ store \in InitStores
  /\ cfg \in Cfgs
  /\ chain = <<>> /\ hostname = <<>> /\ now = 0 /\ certstat = {}
  /\ pc = "idle" /\ i = 0 /\ rc = 0 /\ rcpeer = -1 /\ preauthrc = 0
  /\ certerr = {} /\ savedcert = FALSE
  /\ pa = NoCall /\ lk = NoLookup
  /\ log = <<>> /\ verdict = "none" /\ entry = NoEntry /\ conns = 1

\* tls_check_certificate up to the first loop
StartVerify(ch, h, t, lib) ==
  /\ pc = "idle" /\ conns > 0
  /\ chain' = ch /\ hostname' = h /\ now' = t
  /\ certstat' = tls_verify_peers(lib)
  /\ pc' = "phaseA" /\ i' = 0 /\ rc' = 0 /\ rcpeer' = -1 /\ preauthrc' = 0
  /\ log' = <<>> /\ verdict' = "none" /\ conns' = conns - 1
  /\ entry' = [store |-> store, certstat |-> tls_verify_peers(lib)]
  /\ UNCHANGED <<store, cfg, certerr, savedcert, pa, lk>>

\* tls_check_certificate: no certificate credentials or no peer list
NoPeerCertificate ==
  /\ pc = "idle" /\ conns > 0
  /\ pc' = "done" /\ verdict' = "Rejected" /\ conns' = conns - 1
  /\ log' = <<>>
  /\ UNCHANGED <<store, cfg, chain, hostname, now, certstat, i, rc, rcpeer,
                 preauthrc, certerr, savedcert, pa, lk, entry>>

\* as PhaseAStep, for if (rc == 0) in place of if (preauthrc == 0)
PhaseAStepLastOnly ==
  /\ pc = "phaseA"
  /\ LET call == PreauthCall(i)
         r == call.res
         sum == preauthrc + r.rc
     IN /\ pa' = call
        /\ rc' = r.rc
        /\ preauthrc' = sum
        /\ rcpeer' = IF i = 0 THEN r.rc ELSE rcpeer
        /\ certerr' = r.certerr /\ savedcert' = r.savedcert
        /\ IF r.savedcert /\ r.rc = 0
           THEN pc' = "done" /\ verdict' = "Accepted" /\ i' = i
           ELSE /\ verdict' = verdict
                /\ IF r.savedcert \/ i + 1 >= Len(chain)
                   THEN pc' = "phaseB" /\ i' = Len(chain) - 1
                   ELSE pc' = "phaseA" /\ i' = i + 1
  /\ UNCHANGED <<store, cfg, chain, hostname, now, certstat, lk, log, entry, conns>>

\* as PhaseAStep, rcpeer = rc in every pass and not only for i == 0
PhaseAStepStashAny ==
  /\ pc = "phaseA"
  /\ LET call == PreauthCall(i)
         r == call.res
         sum == preauthrc + r.rc
     IN /\ pa' = call
        /\ rc' = r.rc
        /\ preauthrc' = sum
        /\ rcpeer' = r.rc
        /\ certerr' = r.certerr /\ savedcert' = r.savedcert
        /\ IF r.savedcert /\ sum = 0
           THEN pc' = "done" /\ verdict' = "Accepted" /\ i' = i
           ELSE /\ verdict' = verdict
                /\ IF r.savedcert \/ i + 1 >= Len(chain)
                   THEN pc' = "phaseB" /\ i' = Len(chain) - 1
                   ELSE pc' = "phaseA" /\ i' = i + 1
  /\ UNCHANGED <<store, cfg, chain, hostname, now, certstat, lk, log, entry, conns>>

\* one pass of the first loop
PhaseAStep ==
  /\ pc = "phaseA"
  /\ LET call == PreauthCall(i)
         r == call.res
         sum == preauthrc + r.rc
     IN /\ pa' = call
        /\ rc' = r.rc
        /\ preauthrc' = sum
        /\ rcpeer' = IF i = 0 THEN r.rc ELSE rcpeer
        /\ certerr' = r.certerr /\ savedcert' = r.savedcert
        /\ IF r.savedcert /\ sum = 0
           THEN pc' = "done" /\ verdict' = "Accepted" /\ i' = i
           ELSE /\ verdict' = verdict
                /\ IF r.savedcert \/ i + 1 >= Len(chain)
                   THEN pc' = "phaseB" /\ i' = Len(chain) - 1
                   ELSE pc' = "phaseA" /\ i' = i + 1
  /\ UNCHANGED <<store, cfg, chain, hostname, now, certstat, lk, log, entry, conns>>

\* as PhaseBCheck, the menu shown whatever tls_check_preauth returns
PhaseBCheckAlwaysPrompts ==
  /\ pc = "phaseB"
  /\ LET call == PreauthCall(i)
         r == call.res
     IN /\ pa' = call
        /\ certerr' = r.certerr /\ savedcert' = r.savedcert
        /\ pc' = "prompt" /\ rc' = rc
  /\ UNCHANGED <<store, cfg, chain, hostname, now, certstat, i, rcpeer,
                 preauthrc, lk, log, verdict, entry, conns>>

\* as PhaseBCheck, returning 1 whatever tls_check_preauth returns
PhaseBCheckNeverPrompts ==
  /\ pc = "phaseB"
  /\ LET call == PreauthCall(i)
         r == call.res
     IN /\ pa' = call
        /\ certerr' = r.certerr /\ savedcert' = r.savedcert
        /\ pc' = "post" /\ rc' = 1
  /\ UNCHANGED <<store, cfg, chain, hostname, now, certstat, i, rcpeer,
                 preauthrc, lk, log, verdict, entry, conns>>

\* tls_check_one_certificate up to the menu
PhaseBCheck ==
  /\ pc = "phaseB"
  /\ LET call == PreauthCall(i)
         r == call.res
     IN /\ pa' = call
        /\ certerr' = r.certerr /\ savedcert' = r.savedcert
        /\ IF r.rc = 0
           THEN pc' = "post" /\ rc' = 1
           ELSE pc' = "prompt" /\ rc' = rc
  /\ UNCHANGED <<store, cfg, chain, hostname, now, certstat, i, rcpeer,
                 preauthrc, lk, log, verdict, entry, conns>>

\* as OffersAlways, without the test of the two date bits
OffersAlwaysIgnoringDates ==
  /\ store.status # "unset"
  /\ ~savedcert
  /\ "REVOKED" \notin certerr

\* as OffersAlways, without the test of savedcert
OffersAlwaysWhenSaved ==
  /\ store.status # "unset"
  /\ certerr \cap {"EXPIRED", "NOTYETVALID", "REVOKED"} = {}

\* the menu offers "accept always"
OffersAlways ==
  /\ store.status # "unset"
  /\ ~savedcert
  /\ certerr \cap {"EXPIRED", "NOTYETVALID", "REVOKED"} = {}

\* mutt_menu_loop returns -1 (abort), OP_EXIT or OP_MAX + 1: one case
DecideReject ==
  /\ pc = "prompt"
  /\ log' = Append(log, Event("decide", i, "reject"))
  /\ rc' = 0 /\ pc' = "post"
  /\ UNCHANGED <<store, cfg, chain, hostname, now, certstat, i, rcpeer,
                 preauthrc, certerr, savedcert, pa, lk, verdict, entry, conns>>

\* as DecideOnce, the certificate written to the file as well
DecideOnceSaving ==
  /\ pc = "prompt"
  /\ log' = Append(log, Event("decide", i, "once"))
  /\ store' = [store EXCEPT !.content = Append(@, Pem(chain[i + 1].der, TRUE))]
  /\ rc' = 1 /\ pc' = "post"
  /\ UNCHANGED <<cfg, chain, hostname, now, certstat, i, rcpeer,
                 preauthrc, certerr, savedcert, pa, lk, verdict, entry, conns>>

\* mutt_menu_loop returns OP_MAX + 2
DecideOnce ==
  /\ pc = "prompt"
  /\ log' = Append(log, Event("decide", i, "once"))
  /\ rc' = 1 /\ pc' = "post"
  /\ UNCHANGED <<store, cfg, chain, hostname, now, certstat, i, rcpeer,
                 preauthrc, certerr, savedcert, pa, lk, verdict, entry, conns>>

\* if (certerr & CERTERR_HOSTNAME)
SavesHost(bits) == "HOSTNAME" \in bits

\* as SavesCert, for any error bit at all
SavesCertAnyBit(bits) == bits # {}

\* as SavesCert, only when the host name line is not written
SavesCertWithoutHost(bits) == "HOSTNAME" \notin bits

\* if (certerr ^ CERTERR_HOSTNAME)
SavesCert(bits) == Xor(bits, {"HOSTNAME"}) # {}

\* as AlwaysWrite, the file opened with "w": what it held is gone
AlwaysWriteTruncating(st, md5ok, der, host, bits, idx, hw, w) ==
  LET opened == FileAppendable(st)
      hline == HostLine(host, tls_fingerprint(md5ok, der))
      c1 == IF opened /\ SavesHost(bits) /\ hw = "ok" THEN <<hline>> ELSE <<>>
      c2 == IF opened /\ SavesCert(bits) /\ w \in {"ok", "wpartial"}
            THEN Append(c1, Pem(der, w = "ok")) ELSE c1
  IN [store |-> [status |-> IF opened THEN "ok" ELSE st.status,
                 content |-> IF opened THEN c2 ELSE st.content],
      done |-> IF ~opened THEN 0
               ELSE IF SavesCert(bits) THEN (IF w \in {"ok", "lost"} THEN 1 ELSE 0)
               ELSE IF SavesHost(bits) THEN 1 ELSE 0,
      events |-> <<>>]

\* case OP_MAX + 3 up to mutt_file_fclose: the file afterwards, done, and
\* what happened (records appended, calls that failed)
AlwaysWrite(st, md5ok, der, host, bits, idx, hw, w) ==
  LET opened == FileAppendable(st)
      hline == HostLine(host, tls_fingerprint(md5ok, der))
      c1 == IF opened /\ SavesHost(bits) /\ hw = "ok"
            THEN Append(st.content, hline) ELSE st.content
      c2 == IF opened /\ SavesCert(bits) /\ w \in {"ok", "wpartial"}
            THEN Append(c1, Pem(der, w = "ok")) ELSE c1
      ev0 == IF opened THEN <<>> ELSE <<Event("fail", idx, "open")>>
      ev1 == IF opened /\ SavesHost(bits)
             THEN (IF hw = "ok" THEN <<Event("append", idx, "H")>>
                                ELSE <<Event("fail", idx, "H")>>)
             ELSE <<>>
      ev2 == IF opened /\ SavesCert(bits)
             THEN (CASE w = "ok" -> <<Event("append", idx, "C")>>
                     [] w = "wpartial" -> <<Event("append", idx, "partial"),
                                            Event("fail", idx, "C")>>
                     [] OTHER -> <<Event("fail", idx, "C")>>)
             ELSE <<>>
  IN [store |-> [status |-> IF opened THEN "ok" ELSE st.status, content |-> c2],
      done |-> IF ~opened THEN 0
               ELSE IF SavesCert(bits) THEN (IF w \in {"ok", "lost"} THEN 1 ELSE 0)
               ELSE IF SavesHost(bits) THEN 1 ELSE 0,
      events |-> ev0 \o ev1 \o ev2]

\* the outcomes that can differ: without a call there is one outcome
WriteChoice(st, bits, hw, w) ==
  /\ (FileAppendable(st) /\ SavesHost(bits)) \/ hw = "ok"
  /\ (FileAppendable(st) /\ SavesCert(bits)) \/ w = "ok"

\* mutt_menu_loop returns OP_MAX + 3: write, report, then as OP_MAX + 2
DecideAlways(hw, w) ==
  /\ pc = "prompt" /\ OffersAlways
  /\ WriteChoice(store, certerr, hw, w)
  /\ LET r == AlwaysWrite(store, cfg.md5ok, chain[i + 1].der, hostname,
                          certerr, i, hw, w)
     IN /\ store' = r.store
        /\ log' = Append(log, Event("decide", i, "always")) \o r.events
                    \o <<Event("message", i, IF r.done = 0 THEN "warning"
                                                           ELSE "saved")>>
  /\ rc' = 1 /\ pc' = "post"
  /\ UNCHANGED <<cfg, chain, hostname, now, certstat, i, rcpeer,
                 preauthrc, certerr, savedcert, pa, lk, verdict, entry, conns>>

\* as Reverify, for if (i) in place of if (i && rc)
ReverifyAfterReject(lib) ==
  /\ pc = "post" /\ i # 0
  /\ LET stat == tls_verify_peers(lib)
     IN /\ certstat' = stat
        /\ log' = Append(log, Event("reverify", i, IF lib.ret = 0 THEN "ok"
                                                                  ELSE "error"))
        /\ IF stat = {} /\ rcpeer = 0
           THEN pc' = "done" /\ verdict' = "Accepted" /\ i' = i
           ELSE pc' = "phaseB" /\ verdict' = verdict /\ i' = i - 1
  /\ UNCHANGED <<store, cfg, chain, hostname, now, rc, rcpeer, preauthrc,
                 certerr, savedcert, pa, lk, entry, conns>>

\* as Reverify, for if (rc) in place of if (i && rc)
ReverifyAtLeaf(lib) ==
  /\ pc = "post" /\ rc # 0
  /\ LET stat == tls_verify_peers(lib)
     IN /\ certstat' = stat
        /\ log' = Append(log, Event("reverify", i, IF lib.ret = 0 THEN "ok"
                                                                  ELSE "error"))
        /\ IF (stat = {} /\ rcpeer = 0) \/ i = 0
           THEN pc' = "done" /\ verdict' = "Accepted" /\ i' = i
           ELSE pc' = "phaseB" /\ verdict' = verdict /\ i' = i - 1
  /\ UNCHANGED <<store, cfg, chain, hostname, now, rc, rcpeer, preauthrc,
                 certerr, savedcert, pa, lk, entry, conns>>

\* as Reverify, without the test of rcpeer
ReverifyIgnoresPeer(lib) ==
  /\ pc = "post" /\ i # 0 /\ rc # 0
  /\ LET stat == tls_verify_peers(lib)
     IN /\ certstat' = stat
        /\ log' = Append(log, Event("reverify", i, IF lib.ret = 0 THEN "ok"
                                                                  ELSE "error"))
        /\ IF stat = {}
           THEN pc' = "done" /\ verdict' = "Accepted" /\ i' = i
           ELSE pc' = "phaseB" /\ verdict' = verdict /\ i' = i - 1
  /\ UNCHANGED <<store, cfg, chain, hostname, now, rc, rcpeer, preauthrc,
                 certerr, savedcert, pa, lk, entry, conns>>

\* if (i && rc): trust the certificate (the result of
\* gnutls_certificate_set_x509_trust_mem is only logged), verify again; i--
\* when the function does not return.  rc is written by the next call before
\* it is read.
Reverify(lib) ==
  /\ pc = "post" /\ i # 0 /\ rc # 0
  /\ LET stat == tls_verify_peers(lib)
     IN /\ certstat' = stat
        /\ log' = Append(log, Event("reverify", i, IF lib.ret = 0 THEN "ok"
                                                                  ELSE "error"))
        /\ IF stat = {} /\ rcpeer = 0
           THEN pc' = "done" /\ verdict' = "Accepted" /\ i' = i
           ELSE pc' = "phaseB" /\ verdict' = verdict /\ i' = i - 1
  /\ UNCHANGED <<store, cfg, chain, hostname, now, rc, rcpeer, preauthrc,
                 certerr, savedcert, pa, lk, entry, conns>>

\* as NextCertificate, without the i-- of the loop
NextCertificateSameIndex ==
  /\ pc = "post" /\ i # 0 /\ rc = 0
  /\ pc' = "phaseB" /\ i' = i
  /\ UNCHANGED <<store, cfg, chain, hostname, now, certstat, rc, rcpeer,
                 preauthrc, certerr, savedcert, pa, lk, log, verdict, entry, conns>>

\* the certificate at i > 0 was not accepted: on to the next one
NextCertificate ==
  /\ pc = "post" /\ i # 0 /\ rc = 0
  /\ pc' = "phaseB" /\ i' = i - 1
  /\ UNCHANGED <<store, cfg, chain, hostname, now, certstat, rc, rcpeer,
                 preauthrc, certerr, savedcert, pa, lk, log, verdict, entry, conns>>

\* as ReturnRc, rc kept from an accepted certificate of an earlier pass
ReturnRcAnyAccepted ==
  /\ pc = "post" /\ i = 0
  /\ pc' = "done"
  /\ verdict' = IF rc # 0 \/ \E n \in 1..Len(log) :
                               log[n].ev = "decide" /\ log[n].d # "reject"
                THEN "Accepted" ELSE "Rejected"
  /\ UNCHANGED <<store, cfg, chain, hostname, now, certstat, i, rc, rcpeer,
                 preauthrc, certerr, savedcert, pa, lk, log, entry, conns>>

\* the second loop ends: return rc
ReturnRc ==
  /\ pc = "post" /\ i = 0
  /\ pc' = "done"
  /\ verdict' = IF rc # 0 THEN "Accepted" ELSE "Rejected"
  /\ UNCHANGED <<store, cfg, chain, hostname, now, certstat, i, rc, rcpeer,
                 preauthrc, certerr, savedcert, pa, lk, log, entry, conns>>

\* the connection attempt is over; the certificate file stays
Close ==
  /\ pc = "done"
  /\ chain' = <<>> /\ hostname' = <<>> /\ now' = 0 /\ certstat' = {}
  /\ pc' = "idle" /\ i' = 0 /\ rc' = 0 /\ rcpeer' = -1 /\ preauthrc' = 0
  /\ certerr' = {} /\ savedcert' = FALSE /\ pa' = NoCall
  /\ log' = <<>> /\ verdict' = "none" /\ entry' = NoEntry
  /\ UNCHANGED <<store, cfg, lk, conns>>

\* conn->account.host of a connection: a DNS name or an address literal (a
\* name that differs from a stored one in case only is looked up in
\* SpecStore)
AccountHosts == Hosts \ { <<"M", "x">> }

Next ==
  \/ \E ch \in Chains, h \in AccountHosts, t \in Nows, lib \in LibResults :
       StartVerify(ch, h, t, lib)
  \/ NoPeerCertificate
  \/ PhaseAStep
  \/ PhaseBCheck
  \/ DecideReject
  \/ DecideOnce
  \/ \E hw \in HostWriteOutcomes, w \in WriteOutcomes : DecideAlways(hw, w)
  \/ \E lib \in LibResults : Reverify(lib)
  \/ NextCertificate
  \/ ReturnRc
  \/ Close

Spec == Init /\ [][Next]_vars

\* connections one after the other, the first one finding no file; host
\* names are checked, so that both kinds of record get written
InitSeq ==
  /\ store = [status |-> "missing", content |-> <<>>]
  /\ cfg \in {c \in Cfgs : c.verifyHost}
  /\ chain = <<>> /\ hostname = <<>> /\ now = 0 /\ certstat = {}
  /\ pc = "idle" /\ i = 0 /\ rc = 0 /\ rcpeer = -1 /\ preauthrc = 0
  /\ certerr = {} /\ savedcert = FALSE
  /\ pa = NoCall /\ lk = NoLookup
  /\ log = <<>> /\ verdict = "none" /\ entry = NoEntry /\ conns = MaxConns

SpecSeq == InitSeq /\ [][Next]_vars

----------------------------------------------------------------------------
\* tls_check_preauth on its own, over every status word

AllStatus == KnownStatus \cup {"EXPIRED"}

Times == {1, 2, 3}

InitPreauth ==
  /\ store \in {s \in InitStores : s.status \in {"ok", "unreadable"}}
  /\ cfg \in Cfgs
  /\ chain = <<>> /\ hostname = <<>> /\ now = 0 /\ certstat = {}
  /\ pc = "pure" /\ i = 0 /\ rc = 0 /\ rcpeer = -1 /\ preauthrc = 0
  /\ certerr = {} /\ savedcert = FALSE
  /\ pa = NoCall /\ lk = NoLookup
  /\ log = <<>> /\ verdict = "none" /\ entry = NoEntry /\ conns = 0

CallPreauth(cert, stat, host, chainidx, t) ==
  /\ pc = "pure"
  /\ pa' = [called |-> TRUE, idx |-> chainidx, cert |-> cert, stat |-> stat,
            host |-> host, store |-> store,
            res |-> tls_check_preauth(store, cfg, cert, stat, host, chainidx, t)]
  /\ now' = t /\ pc' = "returned"
  /\ UNCHANGED <<store, cfg, chain, hostname, certstat, i, rc, rcpeer,
                 preauthrc, certerr, savedcert, lk, log, verdict, entry, conns>>

NextPreauth ==
  \E cert \in Certs, stat \in SUBSET AllStatus, host \in Hosts,
     chainidx \in 0..(MaxChainLen - 1), t \in Times :
    CallPreauth(cert, stat, host, chainidx, t)

SpecPreauth == InitPreauth /\ [][NextPreauth]_vars

----------------------------------------------------------------------------
\* the two lookups on their own, over every short certificate file

FileEntries ==
  { HostLine(<<"m", "x">>, FpA), HostLine(<<"M", "x">>, FpA),
    HostLine(<<":", ":", "1">>, FpA), HostLine(<<"m", "x">>, FpB),
    Line(<<"#", " ", "x">>),
    Pem(CertA.der, TRUE), Pem(CertB.der, TRUE), Pem(CertC.der, FALSE) }

Files == SeqsUpTo(FileEntries, MaxFileLen)

InitStore ==
  /\ store \in [status : {"ok", "unreadable"}, content : Files]
                 \cup { [status |-> "missing", content |-> <<>>] }
  /\ cfg \in {c \in Cfgs : c.verifyDates /\ c.verifyHost}
  /\ chain = <<>> /\ hostname = <<>> /\ now = 0 /\ certstat = {}
  /\ pc = "pure" /\ i = 0 /\ rc = 0 /\ rcpeer = -1 /\ preauthrc = 0
  /\ certerr = {} /\ savedcert = FALSE
  /\ pa = NoCall /\ lk = NoLookup
  /\ log = <<>> /\ verdict = "none" /\ entry = NoEntry /\ conns = 0

CallStoredHostname(cert, host) ==
  /\ pc = "pure"
  /\ lk' = [op |-> "hostname", host |-> host, der |-> cert.der,
            res |-> tls_check_stored_hostname(store, cfg.md5ok, cert.der, host)]
  /\ pc' = "returned"
  /\ UNCHANGED <<store, cfg, chain, hostname, now, certstat, i, rc,
                 rcpeer, preauthrc, certerr, savedcert, pa, log, verdict,
                 entry, conns>>

CallCompareCertificates(cert) ==
  /\ pc = "pure"
  /\ lk' = [op |-> "compare", host |-> <<>>, der |-> cert.der,
            res |-> tls_compare_certificates(store, cert.der)]
  /\ pc' = "returned"
  /\ UNCHANGED <<store, cfg, chain, hostname, now, certstat, i, rc,
                 rcpeer, preauthrc, certerr, savedcert, pa, log, verdict,
                 entry, conns>>

NextStore ==
  \/ \E cert \in Certs, host \in Hosts : CallStoredHostname(cert, host)
  \/ \E cert \in Certs : CallCompareCertificates(cert)

SpecStore == InitStore /\ [][NextStore]_vars

----------------------------------------------------------------------------
\* Properties

\* a block holding exactly these bytes is in the file, and every block
\* before it decodes
PinnedIn(st, der) ==
  /\ st.status \in {"ok", "readonly"}
  /\ \E k \in 1..Len(st.content) :
       /\ st.content[k] = Pem(der, TRUE)
       /\ \A j \in 1..(k - 1) : st.content[j].t = "pem" => st.content[j].ok

\* the file cannot be read: it is missing, unreadable, or no path is set
Unavailable(st) == st.status \in {"missing", "unreadable", "unset"}

InVerify == pc \in {"phaseA", "phaseB", "prompt", "post", "done"} /\ chain # <<>>

\* the bits of a certificate that are checked afresh on every connection
LiveBits(cert, stat, t) ==
  (IF cfg.verifyDates /\ t > cert.na THEN {"EXPIRED"} ELSE {})
  \cup (IF cfg.verifyDates /\ t < cert.nb THEN {"NOTYETVALID"} ELSE {})
  \cup (IF "REVOKED" \in stat THEN {"REVOKED"} ELSE {})

\* the result of tls_check_preauth for chain[k] as the connection began
EntryBits(k) ==
  tls_check_preauth(entry.store, cfg, chain[k], entry.certstat, hostname,
                    k - 1, now).certerr

AllPinnedValid ==
  /\ InVerify
  /\ \A k \in 1..Len(chain) :
       PinnedIn(entry.store, chain[k].der) /\ EntryBits(k) = {}

\* C1: once the user rejects a certificate, at whatever index, the check
\* returns Rejected at once: the rejection is the last thing the run does
\* (no later decision, re-verification, write or message) and the verdict
\* is never Accepted
C1_RejectEndsVerify ==
  \A k \in 1..Len(log) :
    (log[k].ev = "decide" /\ log[k].d = "reject")
      => (k = Len(log) /\ verdict # "Accepted")

\* C2: a chain whose certificates are all in the file and all have no error
\* bit is accepted by the first loop: no decision is asked, nothing is
\* re-verified, nothing is written
C2_PinnedValidAccepted ==
  AllPinnedValid =>
    /\ log = <<>>
    /\ store = entry.store
    /\ pc \in {"phaseA", "done"}
    /\ pc = "done" => verdict = "Accepted"

C2_Witness ==
  AllPinnedValid /\ Len(chain) = 2 /\ pc = "done" /\ verdict = "Accepted"

\* C3: when the library status has the revoked bit, the check is accepted
\* only after at least one decision was asked, also when every certificate
\* of the chain is in the file
C3_RevokedNeedsDecision ==
  ("REVOKED" \in entry.certstat /\ verdict = "Accepted")
    => \E k \in 1..Len(log) : log[k].ev = "decide"

C3_Witness ==
  /\ "REVOKED" \in entry.certstat /\ verdict = "Accepted" /\ InVerify
  /\ \A k \in 1..Len(chain) : PinnedIn(entry.store, chain[k].der)

\* C4: tls_check_preauth returns from the cache test only when the
\* certificate is neither expired, nor not yet valid, nor revoked; a cached
\* certificate with one of these bits keeps them and is not valid
C4_ShortCircuitOnlyWhenLive ==
  pa.called =>
    LET live == LiveBits(pa.cert, pa.stat, now)
    IN /\ pa.res.short =>
            (live = {} /\ pa.res.certerr = {} /\ pa.res.savedcert
             /\ pa.res.rc = 0)
       /\ (PinnedIn(pa.store, pa.cert.der) /\ live # {}) =>
            (~pa.res.short /\ live \subseteq pa.res.certerr
             /\ pa.res.savedcert /\ pa.res.rc = -1)

C4_Witness ==
  /\ pa.called /\ PinnedIn(pa.store, pa.cert.der)
  /\ "EXPIRED" \in LiveBits(pa.cert, pa.stat, now)
  /\ "EXPIRED" \in pa.res.certerr

\* the host name check of the end entity fails
HostMismatch ==
  /\ pa.idx = 0 /\ cfg.verifyHost
  /\ LowerStr(pa.host) \notin pa.cert.names
  /\ ~tls_check_stored_hostname(pa.store, cfg.md5ok, pa.cert.der, pa.host)

C6_HostnameOnlyAtLeaf ==
  (pa.called /\ "HOSTNAME" \in pa.res.certerr) => pa.idx = 0

C6_Witness ==
  /\ pa.called /\ pa.idx > 0 /\ cfg.verifyHost /\ InVerify
  /\ LowerStr(pa.host) \notin pa.cert.names
  /\ ~tls_check_stored_hostname(pa.store, cfg.md5ok, pa.cert.der, pa.host)
  /\ "HOSTNAME" \notin pa.res.certerr

\* the entry is the line "#H <name> <fp>" with a name equal to host when
\* letter case is ignored
IsHostPinIgnoringCase(e, host, fp) ==
  /\ e.t = "line"
  /\ Len(e.s) = 3 + Len(host) + 1 + Len(fp)
  /\ SubSeq(e.s, 1, 3) = <<"#", "H", " ">>
  /\ LowerStr(SubSeq(e.s, 4, 3 + Len(host))) = LowerStr(host)
  /\ e.s[4 + Len(host)] = " "
  /\ SubSeq(e.s, 5 + Len(host), Len(e.s)) = fp

\* C7: the host name lookup finds a pin iff the file has a host name line
\* whose name equals the host name ignoring letter case and whose digest
\* is exactly the digest asked for
C7_HostPinIgnoresCase ==
  (lk.op = "hostname" /\ cfg.md5ok /\ store.status = "ok") =>
    (lk.res <=>
       \E k \in 1..Len(store.content) :
         IsHostPinIgnoringCase(store.content[k], lk.host,
                               tls_fingerprint(TRUE, lk.der)))

\* C8: starting without a file, the host name lookup for (host, digest)
\* succeeds iff a line for that host and digest was appended before
C8_HostPinRoundTrip ==
  (pa.called /\ pa.idx = 0 /\ cfg.md5ok /\ pa.store.status = "ok") =>
    (tls_check_stored_hostname(pa.store, cfg.md5ok, pa.cert.der, pa.host)
       <=> \E k \in 1..Len(pa.store.content) :
             pa.store.content[k]
               = HostLine(pa.host, tls_fingerprint(TRUE, pa.cert.der)))

\* C9 as stated: the certificate lookup succeeds iff some block of the file
\* decodes to the bytes asked for, wherever it stands
C9_Original ==
  (lk.op = "compare" /\ store.status = "ok") =>
    (lk.res <=> \E k \in 1..Len(store.content) :
                  store.content[k] = Pem(lk.der, TRUE))

\* C9 amended: the certificate lookup succeeds iff some block of the file
\* decodes to the bytes asked for and every block before it decodes; lines
\* and other blocks around it make no difference
C9_FoundUnlessBrokenBlockBefore ==
  lk.op = "compare" => (lk.res <=> PinnedIn(store, lk.der))

C9_Witness ==
  /\ lk.op = "compare" /\ lk.res
  /\ Len(store.content) = 2
  /\ store.content[1].t = "line"
  /\ store.content[2] = Pem(lk.der, TRUE)

EmptyStore == [status |-> "ok", content |-> <<>>]

\* C10: when the file cannot be read, both lookups find nothing,
\* tls_check_preauth gives what it gives on an empty file, and the check
\* goes on to a verdict
C10_MissingFileIsEmpty ==
  /\ Unavailable(store) =>
       \A c \in Certs, h \in Hosts :
         /\ ~tls_check_stored_hostname(store, cfg.md5ok, c.der, h)
         /\ ~tls_compare_certificates(store, c.der)
  /\ (pa.called /\ Unavailable(pa.store)) =>
       pa.res = tls_check_preauth(EmptyStore, cfg, pa.cert, pa.stat,
                                  pa.host, pa.idx, now)
  /\ (InVerify /\ Unavailable(entry.store)) =>
       IF pc = "done" THEN verdict \in {"Accepted", "Rejected"}
       ELSE ENABLED (PhaseAStep \/ PhaseBCheck \/ DecideReject \/ DecideOnce
                     \/ NextCertificate \/ ReturnRc
                     \/ \E lib \in LibResults : Reverify(lib))

C10_Witness ==
  /\ InVerify /\ entry.store.status = "unreadable"
  /\ entry.store.content # <<>>
  /\ pc = "done" /\ verdict = "Accepted" /\ log # <<>>

----------------------------------------------------------------------------
\* Properties of "accept always" and of the second loop

\* the records the file gained since tls_check_certificate began
Gained ==
  SubSeq(store.content, Len(entry.store.content) + 1, Len(store.content))

\* the "#H" line for the connection's host and the certificate at index k
HostPinOf(k) == HostLine(hostname, tls_fingerprint(cfg.md5ok, chain[k + 1].der))

\* the decisions, in order, that the menu returned for index k
DecisionsAt(k) ==
  SelectSeq(log, LAMBDA e : e.ev = "decide" /\ e.idx = k)

\* some call of "accept always" for index k failed
FailedAt(k) == \E n \in 1..Len(log) : log[n].ev = "fail" /\ log[n].idx = k

\* a chain of one certificate whose menu showed only the host name
\* mismatch and returned "accept always"
LeafHostOnlyAlways ==
  /\ InVerify /\ Len(chain) = 1 /\ pc \in {"post", "done"}
  /\ certerr = {"HOSTNAME"}
  /\ DecisionsAt(0) = <<Event("decide", 0, "always")>>

\* C11 as stated: for a chain of one certificate with the host name
\* mismatch as its only bit, "accept always" always adds exactly one host
\* name line to the file, no certificate block, and the check is Accepted
C11_Original ==
  LeafHostOnlyAlways =>
    /\ Gained = <<HostPinOf(0)>>
    /\ pc = "done" => verdict = "Accepted"

\* C11 amended: for a chain of one certificate with the host name mismatch
\* as its only bit, "accept always" adds exactly one host name line (host of
\* the connection, fingerprint text of the certificate) and no certificate
\* block when the file opens for appending and the line is written; when
\* not, the file gains nothing; the check is Accepted in both cases
C11_HostPinWhenWritten ==
  LeafHostOnlyAlways =>
    /\ Gained = IF FailedAt(0) THEN <<>> ELSE <<HostPinOf(0)>>
    /\ store.status = IF FileAppendable(entry.store) THEN "ok"
                      ELSE entry.store.status
    /\ pc = "done" => verdict = "Accepted"

C11_Witness ==
  /\ LeafHostOnlyAlways /\ pc = "done" /\ verdict = "Accepted"
  /\ entry.store.content # <<>>
  /\ Gained = <<HostPinOf(0)>>

\* a step of "accept always" for the certificate at index i
AlwaysStep ==
  /\ pc = "prompt" /\ pc' = "post"
  /\ Len(log') > Len(log)
  /\ log'[Len(log) + 1] = Event("decide", i, "always")

\* the records the step appended to the file
StepGained ==
  SubSeq(store'.content, Len(store.content) + 1, Len(store'.content))

\* a call made by the step failed
StepFailed ==
  \E n \in (Len(log) + 1)..Len(log') : log'[n].ev = "fail"

\* the step ended with "Certificate saved"
StepSaved == log'[Len(log')] = Event("message", i, "saved")

\* C12 as stated: an "accept always" whose writes all succeed appends
\* exactly one record: the host name line when the host name mismatch is
\* the only bit, else the certificate block and no host name line
C12_Original ==
  [][(AlwaysStep /\ ~StepFailed) =>
       /\ StepSaved
       /\ StepGained = IF certerr = {"HOSTNAME"}
                       THEN <<HostPinOf(i)>>
                       ELSE <<Pem(chain[i + 1].der, TRUE)>>]_vars

\* C12 amended: an "accept always" whose writes all succeed appends the host
\* name line when the host name mismatch bit is set, and after it the
\* certificate block when any other bit is set: one record when only one of
\* the two holds, both records when the mismatch comes with another bit
C12_HostLineAndCertBlock ==
  [][(AlwaysStep /\ ~StepFailed) =>
       /\ StepSaved
       /\ StepGained =
            (IF "HOSTNAME" \in certerr THEN <<HostPinOf(i)>> ELSE <<>>)
            \o (IF certerr \ {"HOSTNAME"} # {}
                THEN <<Pem(chain[i + 1].der, TRUE)>> ELSE <<>>)]_vars

C12_Witness ==
  /\ InVerify /\ Len(chain) = 1 /\ pc = "post"
  /\ certerr = {"HOSTNAME", "NOTTRUSTED"}
  /\ DecisionsAt(0) = <<Event("decide", 0, "always")>>
  /\ ~FailedAt(0)
  /\ Gained = <<HostPinOf(0), Pem(chain[1].der, TRUE)>>

\* C13: when a write of "accept always" fails (the file does not open, a
\* record is not written), the failure is reported and the step ends as
\* "accept once" does: the certificate counts as accepted and the second
\* loop goes on from the same index
C13_FailedAlwaysActsAsOnce ==
  [][(AlwaysStep /\ StepFailed) =>
       /\ log'[Len(log')] = Event("message", i, "warning")
       /\ rc' = 1 /\ pc' = "post"
       /\ UNCHANGED <<i, certstat, rcpeer, verdict, chain, hostname>>]_vars

\* C14: whenever a record asked for by "accept always" was not written, the
\* warning is shown for that certificate, and "Certificate saved" is not
C14_NoSilentFailure ==
  \A n \in 1..Len(log) :
    log[n].ev = "fail" =>
      /\ \E m \in (n + 1)..Len(log) :
           log[m] = Event("message", log[n].idx, "warning")
      /\ \A m \in 1..Len(log) :
           log[m] # Event("message", log[n].idx, "saved")

\* the library call of a re-verification failed
ReverifyFailed ==
  \E n \in 1..Len(log) : log[n].ev = "reverify" /\ log[n].d = "error"

\* C15: when gnutls_certificate_verify_peers2 fails during the second loop,
\* the check ends Rejected: the failed call never counts as a clean status
\* and never leads to Accepted
C15_LibraryErrorRejects ==
  (ReverifyFailed /\ pc = "done") => verdict = "Rejected"

\* the certificate at index i > 0 was accepted: tls_check_one_certificate
\* returned 1
AcceptedAboveLeaf == pc = "post" /\ i # 0 /\ rc # 0

RootAcceptedThenClean ==
  /\ InVerify /\ Len(chain) = 2
  /\ entry.certstat = {"INVALID", "SIGNER_NOT_FOUND"}
  /\ EntryBits(2) = {"NOTTRUSTED"}
  /\ Len(DecisionsAt(1)) = 1 /\ DecisionsAt(1)[1].d \in {"once", "always"}
  /\ \E n \in 1..Len(log) : log[n] = Event("reverify", 1, "ok")
  /\ certstat = {}

\* C17: for such a chain, a leaf without a finding of its own is never
\* shown in a menu and the check ends Accepted; a leaf that also has the
\* host name mismatch gets its menu, and the check is Accepted only when
\* that menu returned "accept once" or "accept always"
C17_LeafAfterCleanReverify ==
  RootAcceptedThenClean =>
    /\ EntryBits(1) = {"NOTTRUSTED"} =>
         /\ DecisionsAt(0) = <<>>
         /\ pc # "prompt"
         /\ pc = "done" => verdict = "Accepted"
    /\ EntryBits(1) = {"NOTTRUSTED", "HOSTNAME"} =>
         /\ pc = "done" =>
              /\ Len(DecisionsAt(0)) = 1
              /\ verdict = "Accepted"
                   <=> DecisionsAt(0)[1].d \in {"once", "always"}
         /\ pc = "post" => Len(DecisionsAt(0)) = 1

C17_Witness ==
  /\ RootAcceptedThenClean /\ EntryBits(1) = {"NOTTRUSTED"}
  /\ pc = "done" /\ verdict = "Accepted" /\ DecisionsAt(0) = <<>>

\* the second loop has dealt with index 0 and the function returns rc
LeafReached == pc = "post" /\ i = 0

SingleInSecondLoop ==
  InVerify /\ Len(chain) = 1 /\ pc \in {"phaseB", "prompt", "post"}

\* C19: for a chain of one certificate the second loop makes one pass, at
\* index 0: at most one menu is shown, the certificate is never added to
\* the trust set, the chain is never verified again, and after the pass
\* the function returns
C19_SingleCertOnePass ==
  (InVerify /\ Len(chain) = 1) =>
    /\ i = 0
    /\ \A n \in 1..Len(log) : log[n].ev # "reverify" /\ log[n].idx = 0
    /\ Len(DecisionsAt(0)) <= 1
    /\ pc = "prompt" => DecisionsAt(0) = <<>>
    /\ pc = "post" =>
         /\ ENABLED ReturnRc
         /\ ~ENABLED NextCertificate
         /\ ~ENABLED (\E lib \in LibResults : Reverify(lib))

C19_Witness ==
  /\ SingleInSecondLoop /\ pc = "post" /\ rc = 1
  /\ DecisionsAt(0) = <<Event("decide", 0, "once")>>
  /\ "NOTTRUSTED" \in certerr

\* a is an initial part of b
IsPrefix(a, b) == Len(a) <= Len(b) /\ SubSeq(b, 1, Len(a)) = a

\* C20: the certificate file only grows: every step, over any number of
\* connections, decisions and failed writes, leaves what the file held in
\* place and in order, and at most appends records to it
C20_StoreAppendOnly ==
  [][/\ IsPrefix(store.content, store'.content)
     /\ store'.status # store.status =>
          (store.status = "missing" /\ store'.status = "ok")]_vars

C20_Witness ==
  /\ conns = 0 /\ InVerify
  /\ Len(entry.store.content) >= 2
  /\ Len(store.content) >= Len(entry.store.content) + 2
  /\ FailedAt(0)

----------------------------------------------------------------------------
\* The same server again: a first connection whose only certificate was
\* accepted with "accept always", then further connections that present the
\* same chain for the same host, with the same library status and clock

SingleChains == {c \in Chains : Len(c) = 1}

\* tls_check_certificate returned 1 for a chain of one certificate after
\* "accept always" whose writes all succeeded ("Certificate saved")
AcceptedByAlways ==
  /\ pc = "done" /\ verdict = "Accepted" /\ Len(chain) = 1
  /\ DecisionsAt(0) = <<Event("decide", 0, "always")>>
  /\ ~FailedAt(0)
  /\ log[Len(log)] = Event("message", 0, "saved")

\* tls_negotiate calls tls_check_certificate for a new connection to the
\* server of the connection before; the second connection is made only
\* after an AcceptedByAlways
Reconnect ==
  /\ pc = "done" /\ conns > 0 /\ chain # <<>>
  /\ conns = MaxConns - 1 => AcceptedByAlways
  /\ certstat' = entry.certstat
  /\ pc' = "phaseA" /\ i' = 0 /\ rc' = 0 /\ rcpeer' = -1 /\ preauthrc' = 0
  /\ log' = <<>> /\ verdict' = "none" /\ conns' = conns - 1
  /\ entry' = [store |-> store, certstat |-> entry.certstat]
  /\ UNCHANGED <<store, cfg, chain, hostname, now, certerr, savedcert, pa, lk>>

InitTofu ==
  /\ store \in InitStores
  /\ cfg \in Cfgs
  /\ chain = <<>> /\ hostname = <<>> /\ now = 0 /\ certstat = {}
  /\ pc = "idle" /\ i = 0 /\ rc = 0 /\ rcpeer = -1 /\ preauthrc = 0
  /\ certerr = {} /\ savedcert = FALSE
  /\ pa = NoCall /\ lk = NoLookup
  /\ log = <<>> /\ verdict = "none" /\ entry = NoEntry /\ conns = MaxConns

\* for a chain of one certificate i is 0 throughout: Reverify and
\* NextCertificate have no part
NextTofu ==
  \/ \E ch \in SingleChains, h \in AccountHosts, t \in Nows, lib \in LibResults :
       conns = MaxConns /\ StartVerify(ch, h, t, lib)
  \/ PhaseAStep
  \/ PhaseBCheck
  \/ DecideReject
  \/ DecideOnce
  \/ \E hw \in HostWriteOutcomes, w \in WriteOutcomes : DecideAlways(hw, w)
  \/ ReturnRc
  \/ Reconnect

SpecTofu == InitTofu /\ [][NextTofu]_vars

\* a connection after the first one of SpecTofu
LaterVerify == InVerify /\ conns < MaxConns - 1

\* C21: after a chain of one certificate was accepted with "accept always"
\* and the records were written, every later check of the same chain for the
\* same host, with the same library status and clock, returns Accepted and
\* shows no menu
C21_TrustOnFirstUse ==
  LaterVerify =>
    /\ pc # "prompt"
    /\ \A n \in 1..Len(log) : log[n].ev # "decide"
    /\ pc = "done" => verdict = "Accepted"

----------------------------------------------------------------------------
\* Properties of the menu, of both loops and of the dates

\* the menu for index k ended without an acceptance: mutt_menu_loop
\* returned -1 (abort), OP_EXIT or OP_MAX + 1, which are one case
AbortedAt(n) == log[n].ev = "decide" /\ log[n].d = "reject"

\* C22: when the menu is aborted while a decision for the certificate at
\* some index is awaited, the check returns Rejected, and after the abort
\* it shows no other menu, verifies nothing again and appends nothing to
\* the file
C22_AbortEndsVerify ==
  \A n \in 1..Len(log) :
    AbortedAt(n) =>
      /\ \A m \in (n + 1)..Len(log) :
           log[m].ev \notin {"decide", "reverify", "append"}
      /\ pc = "done" => verdict = "Rejected"

\* one run of tls_check_certificate at a time, from no file or from a file
\* with two certificates
InitLive ==
  /\ store \in {s \in InitStores :
                  \/ s.status = "missing"
                  \/ s.content = <<Pem(CertA.der, TRUE), Pem(CertB.der, TRUE)>>}
  /\ cfg = [verifyDates |-> TRUE, verifyHost |-> TRUE, md5ok |-> TRUE]
  /\ chain = <<>> /\ hostname = <<>> /\ now = 0 /\ certstat = {}
  /\ pc = "idle" /\ i = 0 /\ rc = 0 /\ rcpeer = -1 /\ preauthrc = 0
  /\ certerr = {} /\ savedcert = FALSE
  /\ pa = NoCall /\ lk = NoLookup
  /\ log = <<>> /\ verdict = "none" /\ entry = NoEntry /\ conns = 1

\* a step of a check in progress
VerifyStep ==
  \/ PhaseAStep
  \/ PhaseBCheck
  \/ DecideReject
  \/ DecideOnce
  \/ \E hw \in HostWriteOutcomes, w \in WriteOutcomes : DecideAlways(hw, w)
  \/ \E lib \in LibResults : Reverify(lib)
  \/ NextCertificate
  \/ ReturnRc

\* tls_check_certificate is straight-line code around the menu: once it is
\* called it runs to its return, provided each menu returns
SpecLive == InitLive /\ [][Next]_vars /\ WF_vars(VerifyStep)

\* how many events of one kind the run logged
CountEv(e) == Cardinality({n \in 1..Len(log) : log[n].ev = e})

\* the first loop is at a certificate of the chain, the second loop showed
\* at most one menu per certificate and verified the chain again at most
\* once per certificate above the leaf
LoopBounds ==
  /\ 0 <= i /\ i < Len(chain)
  /\ CountEv("decide") <= Len(chain)
  /\ CountEv("reverify") <= Len(chain) - 1
  /\ pc = "done" => verdict \in {"Accepted", "Rejected"}
  /\ pc # "done" => verdict = "none"

\* C23: every check that was begun ends, with the verdict Accepted or
\* Rejected, when each menu returns; until then the first loop looks at no
\* more certificates than the chain has, and the second loop shows at most
\* that many menus and verifies the chain again at most one time less
C23_VerifyTerminates ==
  /\ [](InVerify => LoopBounds)
  /\ (pc = "phaseA") ~> (pc = "done" /\ verdict \in {"Accepted", "Rejected"})

C23_Witness ==
  /\ InVerify /\ Len(chain) = MaxChainLen /\ pc = "done"
  /\ CountEv("decide") = Len(chain)
  /\ CountEv("reverify") = Len(chain) - 1

\* "accept always" for the leaf computed the MD5 fingerprint for the host
\* name line, and gnutls_fingerprint failed
DigestFailedInAlways ==
  /\ InVerify /\ ~cfg.md5ok /\ i = 0 /\ pc \in {"post", "done"}
  /\ "HOSTNAME" \in certerr /\ FileAppendable(entry.store)
  /\ DecisionsAt(0) = <<Event("decide", 0, "always")>>

\* C24: when the fingerprint of a certificate cannot be computed, the check
\* fails: it does not return Accepted, no host name line made of the failed
\* fingerprint is appended to the file, and "Certificate saved" is not shown
C24_DigestFailureFails ==
  DigestFailedInAlways =>
    /\ verdict # "Accepted"
    /\ \A k \in 1..Len(Gained) : Gained[k] # HostLine(hostname, UnableToCalculate)
    /\ \A n \in 1..Len(log) : log[n] # Event("message", 0, "saved")

\* the certificate at index k (0-based) is in the certificate file
SavedAt(k) == tls_compare_certificates(store, chain[k + 1].der)

\* C25: the first loop looks at the certificates from index 0 upward and
\* stops at the first one that is in the file: it returns Accepted iff the
\* bits of every index up to that one are VALID, and else goes on to the
\* second loop without looking at the certificates above; a loop that finds
\* no certificate in the file never returns Accepted
C25_PhaseAStopsAtFirstPinned ==
  [][pc = "phaseA" =>
       /\ \A j \in 0..(i - 1) : ~SavedAt(j)
       /\ IF SavedAt(i)
          THEN IF \A j \in 0..i : EntryBits(j + 1) = {}
               THEN pc' = "done" /\ verdict' = "Accepted"
               ELSE pc' = "phaseB" /\ verdict' = "none" /\ log' = <<>>
          ELSE /\ verdict' = "none"
               /\ IF i + 1 < Len(chain)
                  THEN pc' = "phaseA" /\ i' = i + 1
                  ELSE pc' = "phaseB"]_vars

C25_Witness ==
  /\ InVerify /\ Len(chain) = 2 /\ pc = "phaseB" /\ log = <<>>
  /\ pa.called /\ pa.idx = 1 /\ pa.res.savedcert /\ pa.res.rc = 0
  /\ EntryBits(1) # {} /\ ~SavedAt(0)

\* the second loop was entered: the check is in it, or it returned from it
\* (rc of an accepted certificate, or the log of a rejection)
PhaseBEntered ==
  /\ InVerify
  /\ \/ pc \in {"phaseB", "prompt", "post"}
     \/ pc = "done" /\ (rc # 0 \/ log # <<>>)

\* C26: when the library status found as the check began has any bit set
\* and the second loop is entered, the result stashed for the end entity in
\* the first loop is not VALID: no re-verification ends the check early and
\* the second loop always gets to index 0
C26_NoEarlyAcceptAfterLibraryError ==
  (PhaseBEntered /\ entry.certstat # {}) =>
    /\ rcpeer # 0
    /\ pc = "done" => i = 0

C26_Witness ==
  /\ PhaseBEntered /\ entry.certstat # {} /\ Len(chain) = 2
  /\ SavedAt(0)
  /\ \E n \in 1..Len(log) : log[n] = Event("reverify", 1, "ok")
  /\ certstat = {} /\ pc = "done" /\ i = 0 /\ verdict = "Accepted"

\* the menus of this run were shown for strictly decreasing indices
DecidesDescend ==
  \A m, n \in 1..Len(log) :
    (m < n /\ log[m].ev = "decide" /\ log[n].ev = "decide")
      => log[m].idx > log[n].idx

\* the pass of the second loop for index i is over
PassDone == InVerify /\ pc = "post"

\* C27 as stated: in every pass of the second loop tls_check_preauth is
\* called again for index i and the menu is shown exactly once for that
\* certificate before the loop goes on to i - 1, also when its bits are
\* VALID; the menus of one check come in strictly decreasing index order
C27_Original ==
  /\ PassDone => (pa.called /\ pa.idx = i /\ Len(DecisionsAt(i)) = 1)
  /\ DecidesDescend

\* C27 amended: in every pass of the second loop tls_check_preauth is
\* called again for index i; the menu is shown exactly once, with the bits
\* just computed, when these are not VALID, and not at all when they are
\* VALID, the certificate then counting as accepted; the menus of one check
\* come in strictly decreasing index order
C27_MenuUnlessValid ==
  /\ (InVerify /\ pc = "prompt") =>
       /\ pa.called /\ pa.idx = i /\ pa.cert = chain[i + 1]
       /\ certerr = pa.res.certerr /\ certerr # {}
       /\ DecisionsAt(i) = <<>>
  /\ PassDone =>
       /\ pa.called /\ pa.idx = i /\ pa.cert = chain[i + 1]
       /\ Len(DecisionsAt(i)) = (IF pa.res.certerr = {} THEN 0 ELSE 1)
       /\ pa.res.certerr = {} => rc = 1
  /\ DecidesDescend

C27_Witness ==
  /\ PassDone /\ Len(chain) = 2 /\ i = 0
  /\ pa.res.certerr = {} /\ DecisionsAt(0) = <<>> /\ rc = 1
  /\ Len(DecisionsAt(1)) = 1

\* dates are checked and the certificate at index k (0-based) is expired or
\* not yet valid at the time of the check
BadDateAt(k) ==
  /\ InVerify /\ cfg.verifyDates /\ k < Len(chain)
  /\ (chain[k + 1].na < now \/ chain[k + 1].nb > now)

\* C28: with the dates checked, a check whose end entity is expired or not
\* yet valid is Accepted only when the menu was shown for the end entity in
\* that check and returned "accept once"; that menu does not offer "accept
\* always"; this holds whether or not the end entity is in the file and
\* whatever the re-verifications return
C28_BadDateLeafNeedsOnce ==
  BadDateAt(0) =>
    /\ verdict = "Accepted" => DecisionsAt(0) = <<Event("decide", 0, "once")>>
    /\ (pc = "prompt" /\ i = 0) => ~OffersAlways
    /\ \A n \in 1..Len(log) : log[n] # Event("decide", 0, "always")

C28_Witness ==
  /\ BadDateAt(0) /\ Len(chain) = 2 /\ PinnedIn(entry.store, chain[1].der)
  /\ \E n \in 1..Len(log) : log[n] = Event("reverify", 1, "ok")
  /\ certstat = {} /\ pc = "done" /\ verdict = "Accepted"

\* C29: with the dates checked, a check whose chain holds, at any index, a
\* certificate that is expired or not yet valid is Accepted only when the
\* menu was shown for that certificate in the same check and returned
\* "accept once" or "accept always"
C29_BadDateAnywhereNeedsDecision ==
  \A k \in 0..(Len(chain) - 1) :
    (BadDateAt(k) /\ verdict = "Accepted") =>
      /\ Len(DecisionsAt(k)) = 1
      /\ DecisionsAt(k)[1].d \in {"once", "always"}

\* the menu for the certificate at index i is one that cannot save: the
\* certificate has a date or revocation bit, is in the file already, or
\* C_CertificateFile is not set
MenuCannotSave ==
  /\ InVerify /\ pc = "prompt"
  /\ \/ certerr \cap {"EXPIRED", "NOTYETVALID", "REVOKED"} # {}
     \/ savedcert
     \/ store.status = "unset"

\* C30: nothing is appended to the file for a certificate whose bits hold
\* EXPIRED, NOTYETVALID or REVOKED, nor for one that is in the file
\* already, nor when no file is configured: the menu then returns a
\* rejection or "accept once" only, with no write and no message
C30_NoSaveForLiveBitsOrPinned ==
  [][MenuCannotSave =>
       /\ store' = store
       /\ log' \in {Append(log, Event("decide", i, "reject")),
                    Append(log, Event("decide", i, "once"))}
       /\ pc' = "post"]_vars

C30_Witness ==
  /\ InVerify /\ pc = "post" /\ i = 0 /\ savedcert
  /\ certerr = {"HOSTNAME"} /\ store.status = "ok"
  /\ DecisionsAt(0) = <<Event("decide", 0, "once")>>
  /\ store = entry.store

----------------------------------------------------------------------------
\* Properties of the writes, of the trust set and of tls_check_preauth

\* C31: the certificate file is changed only by the step that handles
\* "accept always": the calls of tls_check_preauth and of the two lookups,
\* the whole first loop, the re-verification, and the handling of a
\* rejection and of "accept once" leave it as it is
C31_StoreChangedOnlyByAlways ==
  [][store' # store => AlwaysStep]_vars

C31_Witness ==
  /\ InVerify /\ Len(chain) = 2 /\ pc = "done"
  /\ DecisionsAt(1) = <<Event("decide", 1, "once")>>
  /\ \E n \in 1..Len(log) : log[n].ev = "reverify"
  /\ DecisionsAt(0) = <<Event("decide", 0, "always")>>
  /\ Gained = <<Pem(chain[1].der, TRUE)>>

\* the step adds the certificate at index i to the trust set and verifies
\* the chain again
TrustStep ==
  /\ Len(log') = Len(log) + 1
  /\ log'[Len(log')].ev = "reverify"

\* C32: a certificate is added to the trust set, and the chain verified
\* again, only when it stands at an index above 0 and was accepted in the
\* second loop of this check: by "accept once" or "accept always" in its
\* menu, or without a menu because tls_check_preauth found it valid; a
\* rejected certificate and the end entity are never added
C32_TrustOnlyAcceptedAboveLeaf ==
  [][TrustStep =>
       /\ pc = "post" /\ i > 0 /\ rc = 1
       /\ log'[Len(log')].idx = i
       /\ pa.called /\ pa.idx = i
       /\ IF pa.res.rc = 0
          THEN DecisionsAt(i) = <<>>
          ELSE /\ Len(DecisionsAt(i)) = 1
               /\ DecisionsAt(i)[1].d \in {"once", "always"}]_vars

C32_Witness ==
  /\ InVerify /\ Len(chain) = 2 /\ pc = "phaseB" /\ i = 0
  /\ DecisionsAt(1) = <<Event("decide", 1, "always")>>
  /\ log[Len(log)].ev = "reverify" /\ log[Len(log)].idx = 1

\* the step ended with the warning that the certificate was not saved
StepWarned == log'[Len(log')] = Event("message", i, "warning")

\* C33: when "accept always" could not save and says so (the warning is
\* shown), the certificate file holds exactly what it held before the
\* decision: no host name line without its certificate block and no part of
\* a block stays behind
C33_FailedSaveLeavesStore ==
  [][(AlwaysStep /\ StepWarned) => store'.content = store.content]_vars

\* a check of a chain none of whose certificates is in the certificate file,
\* with a clean status from the library at the start, every certificate
\* within its dates and the end entity naming the host
CleanUnpinnedChain ==
  /\ InVerify
  /\ entry.certstat = {}
  /\ \A k \in 1..Len(chain) :
       /\ ~tls_compare_certificates(entry.store, chain[k].der)
       /\ ~BadDateAt(k - 1)
  /\ gnutls_x509_crt_check_hostname(chain[1], hostname)

NoDecide == CountEv("decide") = 0

\* no re-verification of this check reported a status with a bit set: for a
\* CleanUnpinnedChain the check ends at the first re-verification that
\* reports none, so the status is still clean and at most one was made
ReverifyStayedClean == certstat = {} /\ CountEv("reverify") <= 1

\* C34 as stated: for a chain on which nothing is pinned, with a clean
\* library status, every certificate within its dates and the end entity
\* naming the host, the check returns Accepted, shows no menu and appends
\* nothing to the certificate file
C34_Original ==
  CleanUnpinnedChain =>
    /\ NoDecide /\ pc # "prompt"
    /\ store = entry.store
    /\ (pc = "done" => verdict = "Accepted")

\* C34 amended: the same, as long as every re-verification made above the
\* end entity also reports a clean status; a chain of one certificate is
\* never verified again
C34_CleanChainAccepted ==
  /\ (CleanUnpinnedChain /\ ReverifyStayedClean) =>
       /\ NoDecide /\ pc # "prompt"
       /\ store = entry.store
       /\ (pc = "done" => verdict = "Accepted")
  /\ (CleanUnpinnedChain /\ Len(chain) = 1) => ReverifyStayedClean

C34_Witness ==
  /\ CleanUnpinnedChain /\ Len(chain) = 2
  /\ cfg.verifyHost
  /\ pc = "done" /\ verdict = "Accepted"
  /\ log = <<Event("reverify", 1, "ok")>>
  /\ certstat = {}

\* tls_check_preauth ran past the cache test: it did not return at line 398
PastCache == pa.called /\ ~pa.res.short

\* C35: when tls_check_preauth does not return from the cache test, OTHER
\* is in its result iff the status has a bit besides REVOKED, INVALID,
\* SIGNER_NOT_FOUND, SIGNER_NOT_CA and INSECURE_ALGORITHM: none of the five,
\* REVOKED that was cleared early included, yields OTHER, and any other
\* bit does
C35_OtherIffUnknownBit ==
  PastCache =>
    ("OTHER" \in pa.res.certerr
       <=> pa.stat \ {"REVOKED", "INVALID", "SIGNER_NOT_FOUND",
                      "SIGNER_NOT_CA", "INSECURE_ALGORITHM"} # {})

C35_Witness ==
  /\ PastCache /\ pa.res.savedcert
  /\ pa.stat = {"REVOKED", "INVALID", "SIGNER_NOT_FOUND", "SIGNER_NOT_CA",
                "INSECURE_ALGORITHM"}
  /\ "REVOKED" \in pa.res.certerr
  /\ "OTHER" \notin pa.res.certerr

\* C36: when tls_check_preauth does not return from the cache test,
\* NOTTRUSTED is in its result iff the status has INVALID or
\* SIGNER_NOT_FOUND, SIGNERNOTCA iff it has SIGNER_NOT_CA, and INSECUREALG
\* iff it has INSECURE_ALGORITHM; the call changes nothing the caller holds,
\* its status word included
C36_KnownBitsMapped ==
  [][pc = "pure" =>
       /\ UNCHANGED <<certstat, store, chain, hostname>>
       /\ pa'.called
       /\ ~pa'.res.short =>
            /\ "NOTTRUSTED" \in pa'.res.certerr
                 <=> (pa'.stat \cap {"INVALID", "SIGNER_NOT_FOUND"} # {})
            /\ "SIGNERNOTCA" \in pa'.res.certerr
                 <=> "SIGNER_NOT_CA" \in pa'.stat
            /\ "INSECUREALG" \in pa'.res.certerr
                 <=> "INSECURE_ALGORITHM" \in pa'.stat]_vars

C36_Witness ==
  /\ PastCache
  /\ pa.stat = {"SIGNER_NOT_FOUND", "SIGNER_NOT_CA", "INSECURE_ALGORITHM"}
  /\ pa.res.certerr = {"NOTTRUSTED", "SIGNERNOTCA", "INSECUREALG"}

\* the file can be read and has the line that "accept always" writes for
\* this host and this certificate
StoreHoldsHostPin ==
  /\ FileReadable(pa.store)
  /\ \E k \in 1..Len(pa.store.content) :
       pa.store.content[k]
         = HostLine(pa.host, tls_fingerprint(cfg.md5ok, pa.cert.der))

\* C37: for the end entity, HOSTNAME is in the result of tls_check_preauth
\* iff C_SslVerifyHost is set, the names of the certificate do not match
\* the host, and the certificate file has no host name line for this host
\* and the MD5 fingerprint of the certificate, the line "accept always"
\* writes
C37_HostnameIffNoNameNoPin ==
  (pa.called /\ pa.idx = 0) =>
    ("HOSTNAME" \in pa.res.certerr
       <=> /\ cfg.verifyHost
           /\ ~gnutls_x509_crt_check_hostname(pa.cert, pa.host)
           /\ ~StoreHoldsHostPin)

\* C38: with C_SslVerifyDates set, EXPIRED is in the result of
\* tls_check_preauth iff the time is after the expiration time and
\* NOTYETVALID iff it is before the activation time, neither at the very
\* time, at index 0 and above; with C_SslVerifyDates unset neither is ever
\* in the result
C38_DateBitsStrict ==
  pa.called =>
    /\ "EXPIRED" \in pa.res.certerr <=> (cfg.verifyDates /\ now > pa.cert.na)
    /\ "NOTYETVALID" \in pa.res.certerr <=> (cfg.verifyDates /\ now < pa.cert.nb)

C38_Witness ==
  /\ pa.called /\ pa.idx > 0 /\ cfg.verifyDates
  /\ now = pa.cert.na /\ now = pa.cert.nb
  /\ pa.res.certerr \cap {"EXPIRED", "NOTYETVALID"} = {}
  /\ ~pa.res.short

====
